---- MODULE Spec2Model ----
(***************************************************************************)
(* A model of references/chrome-debugger-mcp/server.py: the CDP client     *)
(* (request/response correlation over one websocket, the receive loop and  *)
(* the state it derives from events), the connection manager (the registry *)
(* of clients and the active one) and the debugger tools built on them.    *)
(*                                                                         *)
(* Python values are modelled as follows.                                  *)
(*   - None, where the other values are strings, is the value None below,  *)
(*     which is none of the connection ids the model draws.                *)
(*   - A CDPClient object is a position in the sequence cdp (objects are   *)
(*     never freed in the model); "no client" (None) is NoClient.          *)
(*   - A dict that holds event params is a record with the set of its      *)
(*     keys; an optional dict is a record [is_none, value].                *)
(*   - An asyncio task is a record with its position (pc) and its locals.  *)
(***************************************************************************)
EXTENDS Integers, Sequences, FiniteSets, TLC

(* ------------------------------ bounds -------------------------------- *)

\* The largest request id a client hands out (msg_id is unbounded in the code).
MaxMsgId == 3

\* The number of tool calls in progress at the same time.
MaxTasks == 2

\* The number of CDPClient objects the registry's connects construct.
MaxClients == 3

\* The largest line number a caller sets a breakpoint on.
MaxLine == 2

\* The number of messages that arrive on a connection whose buffer is kept.
MaxWire == 3

(* ------------------------------ values -------------------------------- *)

None == "None"

NoClient == 0

EmptyDict == [keys |-> {}, callFrames |-> <<>>]

NoneValue == [is_none |-> TRUE, value |-> EmptyDict]

Some(d) == [is_none |-> FALSE, value |-> d]

\* bool(x) of an optional dict: None and {} are falsy.
Truthy(v) == ~v.is_none /\ v.value.keys # {}

\* bool(s) of an optional string: None and "" are falsy.
TruthyStr(s) == s # None /\ s # ""

\* The params of a Debugger.paused event as Chrome sends them.
PausedParams == [keys |-> {"callFrames", "reason"}, callFrames |-> <<"frame0">>]

\* The connection ids callers choose.
Ids == {"", "a"}

(* ------------------------------ frames -------------------------------- *)

\* The result of a response has no "locations", or an empty list of them.
NoLine == -1

\* One websocket message. json: json.loads succeeds on it. id = 0: the object
\* has no "id" key. method = "": it has no "method" key. params is_none: it
\* has no "params" key. line: the "lineNumber" of the first of the
\* "locations" of its result.
ResponseFrames ==
    {[json |-> TRUE, id |-> i, method |-> "", error |-> e, params |-> NoneValue,
      line |-> NoLine] :
        i \in 1..MaxMsgId, e \in BOOLEAN}

\* The answers to Debugger.setBreakpointByUrl that name the location Chrome
\* resolved the breakpoint to, with its line counted from 0.
BreakpointFrames ==
    {[json |-> TRUE, id |-> i, method |-> "", error |-> FALSE, params |-> NoneValue,
      line |-> l] :
        i \in 1..MaxMsgId, l \in 0..MaxLine}

EventFrames ==
    {[json |-> TRUE, id |-> 0, method |-> "Debugger.paused", error |-> FALSE, params |-> p,
      line |-> NoLine] :
        p \in {NoneValue, Some(EmptyDict), Some(PausedParams)}}
    \cup {[json |-> TRUE, id |-> 0, method |-> m, error |-> FALSE, params |-> NoneValue,
            line |-> NoLine] :
        m \in {"Debugger.resumed", "Debugger.scriptParsed"}}

\* A message that is no JSON, and a JSON object with neither "id" nor "method".
OtherFrames ==
    {[json |-> j, id |-> 0, method |-> "", error |-> FALSE, params |-> NoneValue,
      line |-> NoLine] :
        j \in BOOLEAN}

Frames == ResponseFrames \cup EventFrames \cup OtherFrames

NoFrame ==
    [json |-> FALSE, id |-> 0, method |-> "", error |-> FALSE, params |-> NoneValue,
     line |-> NoLine]

(* ------------------------------ state --------------------------------- *)

VARIABLES
    cdp,                    \* the CDPClient objects, in order of construction
    connections,            \* CDPConnectionManager.connections, in dict order
    active_connection_id,   \* CDPConnectionManager.active_connection_id
    tasks,                  \* the tool calls in progress
    chrome_client           \* the global chrome_client

vars == <<cdp, connections, active_connection_id, tasks, chrome_client>>

registry == <<connections, active_connection_id>>

\* CDPClient.__init__. arrived and processed are no attributes of the
\* client: they are the messages the websocket has received, in the order of
\* their arrival, and the messages its iterator has handed to the loop.
NewClient ==
    [ws |-> "None", msg_id |-> 0, pending_responses |-> [i \in {} |-> NoFrame],
     paused_data |-> NoneValue, event_handlers |-> {}, receive_task |-> "None",
     breakpoints |-> {}, arrived |-> <<>>, processed |-> <<>>]

\* asyncio.Future()
NewFuture == [state |-> "pending", result |-> NoFrame]

IdleTask ==
    [tool |-> "", pc |-> "idle", connection_id |-> None, cdp |-> NoClient,
     msg_id |-> 0, method |-> "", arg |-> "", response |-> NoFrame, reply |-> "",
     it |-> [i |-> 0, left |-> 0, used |-> 0], stored |-> {},
     listed |-> [id \in {} |-> [active |-> FALSE, paused |-> FALSE]],
     lineNumber |-> NoLine, actual_line |-> 0]

Tasks == 1..MaxTasks

\* The global chrome_client is None, or a ChromeDevToolsClient whose session
\* is None (__init__), entered (the ClientSession is created and entered) or
\* initialized (session.initialize() has returned, and with it connect).
NoChromeClient == [is_none |-> TRUE, session |-> "None"]

\* ChromeDevToolsClient.__init__
NewChromeClient == [is_none |-> FALSE, session |-> "None"]

\* The client that a successful ensure_chrome_client leaves.
ChromeConnected == [is_none |-> FALSE, session |-> "initialized"]

(* ------------------------- dict operations ---------------------------- *)

\* The dict of connections is the sequence of its entries in insertion order,
\* as CPython keeps them: "del" leaves a dead entry behind, a new key is
\* appended, and an iterator walks the entries by position. (The table is not
\* resized, and so not compacted, before its sixth insertion.)
Live(d) == {i \in 1..Len(d) : d[i].live}

Keys(d) == {d[i].id : i \in Live(d)}

Size(d) == Cardinality(Live(d))

\* d.get(k): the client stored under k, or None.
Get(d, k) ==
    IF k \in Keys(d)
    THEN d[CHOOSE i \in Live(d) : d[i].id = k].cdp
    ELSE NoClient

\* d[k] = v
Put(d, k, v) ==
    IF k \in Keys(d)
    THEN [i \in 1..Len(d) |-> IF d[i].live /\ d[i].id = k
                              THEN [d[i] EXCEPT !.cdp = v] ELSE d[i]]
    ELSE Append(d, [id |-> k, cdp |-> v, live |-> TRUE])

\* del d[k], for a key of d
Del(d, k) ==
    [i \in 1..Len(d) |-> IF d[i].live /\ d[i].id = k
                         THEN [d[i] EXCEPT !.live = FALSE] ELSE d[i]]

\* next(iter(d.keys()), None)
FirstKey(d) ==
    IF Live(d) = {} THEN None
    ELSE d[CHOOSE i \in Live(d) : \A j \in Live(d) : i <= j].id

\* iter(d.values()): the position, the number of items left and the size.
Iter(d) == [i |-> 0, left |-> Size(d), used |-> Size(d)]

\* The live entries the iterator has not passed.
Ahead(d, it) == {j \in Live(d) : j > it.i}

\* next(it): "error" (RuntimeError: the dict changed size, or its keys changed,
\* during the iteration), "stop" (StopIteration) or "item".
NextKind(d, it) ==
    IF it.used # Size(d) THEN "error"
    ELSE IF Ahead(d, it) = {} THEN "stop"
    ELSE IF it.left = 0 THEN "error"
    ELSE "item"

NextIndex(d, it) == CHOOSE j \in Ahead(d, it) : \A k \in Ahead(d, it) : j <= k

\* del m[k] and m[k] = v of the dict of pending responses, keyed by request id.
DelKey(m, k) == [i \in DOMAIN m \ {k} |-> m[i]]

SetKey(m, k, v) == [i \in DOMAIN m \cup {k} |-> IF i = k THEN v ELSE m[i]]

(* ------------------------ CDPConnectionManager ------------------------ *)

\* get_active: the truth value of the id decides, not "is not None".
get_active ==
    IF TruthyStr(active_connection_id)
    THEN Get(connections, active_connection_id)
    ELSE NoClient

get(connection_id) == Get(connections, connection_id)

\* A lookup that falls back to the active connection for an unknown id.
get_connection_fallback(connection_id) ==
    IF connection_id = None \/ get(connection_id) = NoClient
    THEN get_active ELSE get(connection_id)

get_connection(connection_id) ==
    IF connection_id = None THEN get_active ELSE get(connection_id)

(* ----------------------------- CDPClient ------------------------------ *)

\* A loop that takes responses to arrive in the order of the requests: it
\* resolves the oldest pending request whatever the id of the response.
set_result_oldest(pending, data) ==
    LET waiting == {i \in DOMAIN pending : pending[i].state = "pending"}
    IN  IF waiting # {}
        THEN LET i == CHOOSE j \in waiting : \A k \in waiting : j <= k
             IN  [pending EXCEPT ![i] = [state |-> "done", result |-> data]]
        ELSE pending

\* _receive_loop on a response: "if msg_id in self.pending_responses:
\* self.pending_responses[msg_id].set_result(data)". The table after it; a
\* future that is not pending any more keeps its state (set_result raises).
set_result(pending, data) ==
    IF data.id \in DOMAIN pending /\ pending[data.id].state = "pending"
    THEN [pending EXCEPT ![data.id] = [state |-> "done", result |-> data]]
    ELSE pending

\* Whether set_result raises InvalidStateError: the future is done or cancelled.
set_result_raises(pending, data) ==
    data.id \in DOMAIN pending /\ pending[data.id].state # "pending"

\* A handler that clears the snapshot to an empty dict instead of None.
handle_paused_data_emptied(paused_data, event) ==
    LET params == IF event.params.is_none THEN Some(EmptyDict) ELSE event.params
    IN  IF event.method = "Debugger.paused" THEN params
        ELSE IF event.method = "Debugger.resumed" THEN Some(EmptyDict)
        ELSE paused_data

\* _handle_event, lines 168 to 182: the paused_data after the event.
handle_paused_data(paused_data, event) ==
    LET params == IF event.params.is_none THEN Some(EmptyDict) ELSE event.params
    IN  IF event.method = "Debugger.paused" THEN params
        ELSE IF event.method = "Debugger.resumed" THEN NoneValue
        ELSE paused_data

\* A loop that takes the answer to a command for the end of the pause.
receive_ack_clears(client, message) ==
    IF ~message.json
    THEN [client EXCEPT !.receive_task = "done"]
    ELSE IF message.id # 0
    THEN IF set_result_raises(client.pending_responses, message)
         THEN [client EXCEPT !.receive_task = "done"]
         ELSE [client EXCEPT
                 !.pending_responses = set_result(client.pending_responses, message),
                 !.paused_data = NoneValue]
    ELSE IF message.method # ""
    THEN [client EXCEPT
            !.paused_data = handle_paused_data(client.paused_data, message),
            !.receive_task = IF message.method \in client.event_handlers
                             THEN "in_handler" ELSE "running"]
    ELSE client

\* A loop that awaits the custom handler of an event before it tracks the
\* event: the handler runs on the paused_data of before.
receive_handler_first(client, message) ==
    IF ~message.json
    THEN [client EXCEPT !.receive_task = "done"]
    ELSE IF message.id # 0
    THEN IF set_result_raises(client.pending_responses, message)
         THEN [client EXCEPT !.receive_task = "done"]
         ELSE [client EXCEPT
                 !.pending_responses = set_result(client.pending_responses, message)]
    ELSE IF message.method # ""
    THEN IF message.method \in client.event_handlers
         THEN [client EXCEPT !.receive_task = "in_handler"]
         ELSE [client EXCEPT
                 !.paused_data = handle_paused_data(client.paused_data, message)]
    ELSE client

\* One turn of "async for message in self.ws" with the message the remote
\* sent next: the client after the turn, up to the await of a custom handler.
receive(client, message) ==
    IF ~message.json
    THEN [client EXCEPT !.receive_task = "done"]
    ELSE IF message.id # 0
    THEN IF set_result_raises(client.pending_responses, message)
         THEN [client EXCEPT !.receive_task = "done"]
         ELSE [client EXCEPT
                 !.pending_responses = set_result(client.pending_responses, message)]
    ELSE IF message.method # ""
    THEN [client EXCEPT
            !.paused_data = handle_paused_data(client.paused_data, message),
            !.receive_task = IF message.method \in client.event_handlers
                             THEN "in_handler" ELSE "running"]
    ELSE client

\* Clients that keep paused_data in one attribute of the class: the event of
\* one connection sets the paused_data of all.
ReceiveFrame_shared(c, message) ==
    /\ cdp[c].receive_task = "running"
    /\ cdp[c].ws = "open"
    /\ cdp' = [k \in DOMAIN cdp |->
                  IF k = c THEN receive(cdp[c], message)
                  ELSE [cdp[k] EXCEPT !.paused_data = receive(cdp[c], message).paused_data]]
    /\ UNCHANGED <<registry, chrome_client, tasks>>

\* A loop that starts the custom handler of an event and reads on while the
\* handler runs.
ReceiveFrame_concurrent(c, message) ==
    /\ cdp[c].receive_task \in {"running", "in_handler"}
    /\ cdp[c].ws = "open"
    /\ cdp' = [cdp EXCEPT ![c] =
                  [receive(cdp[c], message) EXCEPT
                      !.receive_task = IF cdp[c].receive_task = "in_handler"
                                       THEN "in_handler" ELSE @]]
    /\ UNCHANGED <<registry, chrome_client, tasks>>

\* The receive loop reads one message.
ReceiveFrame(c, message) ==
    /\ cdp[c].receive_task = "running"
    /\ cdp[c].ws = "open"
    /\ cdp' = [cdp EXCEPT ![c] = receive(cdp[c], message)]
    /\ UNCHANGED <<registry, chrome_client, tasks>>

\* The messages the remote sends on a connection whose buffer is kept.
WireFrames ==
    EventFrames \cup {f \in OtherFrames : f.json}
    \cup {f \in ResponseFrames : f.id = 1 /\ ~f.error}

\* A message arrives on the connection and waits in the buffer of the
\* websocket until the loop reads it.
Arrive(c, message) ==
    /\ cdp[c].ws = "open"
    /\ Len(cdp[c].arrived) < MaxWire
    /\ cdp' = [cdp EXCEPT ![c].arrived = Append(@, message)]
    /\ UNCHANGED <<registry, chrome_client, tasks>>

\* An iterator that hands out the message that arrived last.
next_message_latest(client) == client.arrived[Len(client.arrived)]

\* "async for message in self.ws": the iterator of the websocket hands out
\* the messages in the order of their arrival.
next_message(client) == client.arrived[Len(client.processed) + 1]

\* The receive loop reads the next message of the buffer.
ReceiveNext(c) ==
    /\ cdp[c].receive_task = "running"
    /\ cdp[c].ws = "open"
    /\ Len(cdp[c].processed) < Len(cdp[c].arrived)
    /\ cdp' = [cdp EXCEPT ![c] =
                  receive([cdp[c] EXCEPT !.processed = Append(@, next_message(cdp[c]))],
                          next_message(cdp[c]))]
    /\ UNCHANGED <<registry, chrome_client, tasks>>

\* The custom handler of client c awaits a send_command of its own.
HandlerAwaits(c) ==
    \E t \in Tasks : /\ tasks[t].tool = "handler" /\ tasks[t].cdp = c
                      /\ tasks[t].pc \in {"send", "wait"}

\* The custom handler the loop awaits returns, or raises: the exception leaves
\* _handle_event and the loop's "except Exception" ends the loop.
HandlerEnds(c, raises) ==
    /\ cdp[c].receive_task = "in_handler"
    /\ ~HandlerAwaits(c)
    /\ cdp' = [cdp EXCEPT ![c].receive_task = IF raises THEN "done" ELSE "running"]
    /\ UNCHANGED <<registry, chrome_client, tasks>>

\* on(eventMethod, handler): the handler of an event method is registered in
\* event_handlers, over the one that was registered before.
on(client, method) == [client EXCEPT !.event_handlers = @ \cup {method}]

\* A user of the client registers a handler.
On(c, method) ==
    /\ method \notin cdp[c].event_handlers
    /\ cdp' = [cdp EXCEPT ![c] = on(cdp[c], method)]
    /\ UNCHANGED <<registry, chrome_client, tasks>>

\* The transport fails or the remote closes the connection.
ConnectionLost(c) ==
    /\ cdp[c].ws = "open"
    /\ cdp' = [cdp EXCEPT ![c].ws = "closed"]
    /\ UNCHANGED <<registry, chrome_client, tasks>>

\* The loop's read on a closed connection ends the iteration (or raises
\* ConnectionClosed, which "except Exception" swallows): the task is done.
ReceiveClosed(c) ==
    /\ cdp[c].receive_task = "running"
    /\ cdp[c].ws = "closed"
    /\ cdp' = [cdp EXCEPT ![c].receive_task = "done"]
    /\ UNCHANGED <<registry, chrome_client, tasks>>

(* --------------------------- send_command ----------------------------- *)

\* A client that takes the size of the table for the next request id.
register_reused(client) ==
    LET msg_id == Cardinality(DOMAIN client.pending_responses) + 1
    IN  [client EXCEPT
            !.msg_id = msg_id,
            !.pending_responses = SetKey(client.pending_responses, msg_id, NewFuture)]

\* Lines 199 to 213, up to the first await: the request id and the future.
register(client) ==
    [client EXCEPT
        !.msg_id = client.msg_id + 1,
        !.pending_responses = SetKey(client.pending_responses, client.msg_id + 1, NewFuture)]

\* A call that leaves its entry in the table when its response is there.
del_on_response_kept(pending, msg_id) == pending

\* "del self.pending_responses[msg_id]" once the response is there, line 221.
del_on_response(pending, msg_id) == DelKey(pending, msg_id)

\* A timeout that leaves the request registered.
del_on_timeout_missing(pending, msg_id) == pending

\* A timeout that drops every pending request.
del_on_timeout_all(pending, msg_id) == [i \in {} |-> NoFrame]

\* "del self.pending_responses[msg_id]" after the timeout, line 229.
del_on_timeout(pending, msg_id) == DelKey(pending, msg_id)

\* A wait without a timeout: the future is left as it is.
cancel_never(pending, msg_id) == pending

\* asyncio.wait_for's timeout: it cancels the future it waits for. The caller
\* resumes in a later turn of the event loop.
cancel(pending, msg_id) ==
    [pending EXCEPT ![msg_id] = [state |-> "cancelled", result |-> NoFrame]]

(* --------------------------- debugger tools --------------------------- *)

Tools ==
    {"debugger_enable", "debugger_pause", "debugger_resume", "debugger_step_over",
     "debugger_step_into", "debugger_step_out", "debugger_evaluate_on_call_frame",
     "debugger_set_breakpoint", "debugger_remove_breakpoint",
     "debugger_get_call_stack", "debugger_set_pause_on_exceptions"}

\* The tools that send a command after "if not cdp.paused_data: return 'Not
\* paused...'". (debugger_get_call_stack has the same test and sends nothing.)
PausedTools ==
    {"debugger_resume", "debugger_step_over", "debugger_step_into",
     "debugger_step_out", "debugger_evaluate_on_call_frame"}

\* The CDP method each tool sends.
Method(tool) ==
    CASE tool = "debugger_enable" -> "Debugger.enable"
      [] tool = "debugger_pause" -> "Debugger.pause"
      [] tool = "debugger_resume" -> "Debugger.resume"
      [] tool = "debugger_step_over" -> "Debugger.stepOver"
      [] tool = "debugger_step_into" -> "Debugger.stepInto"
      [] tool = "debugger_step_out" -> "Debugger.stepOut"
      [] tool = "debugger_evaluate_on_call_frame" -> "Debugger.evaluateOnCallFrame"
      [] tool = "debugger_set_breakpoint" -> "Debugger.setBreakpointByUrl"
      [] tool = "debugger_remove_breakpoint" -> "Debugger.removeBreakpoint"
      [] tool = "debugger_set_pause_on_exceptions" -> "Debugger.setPauseOnExceptions"
      [] tool = "debugger_get_call_stack" -> ""

\* The line numbers a caller passes to debugger_set_breakpoint, counted from 1.
Lines == 1..MaxLine

\* The url and the line_number of debugger_set_breakpoint as one argument.
Location(n) == "app.js:" \o ToString(n)

\* The line_number of the argument of debugger_set_breakpoint.
line_number(arg) == CHOOSE n \in Lines : Location(n) = arg

\* A tool that sends the line number as the caller counts it.
wire_line_unconverted(n) == n

\* "lineNumber": line_number - 1, line 1479.
wire_line(n) == n - 1

\* "actual_line = loc.get('lineNumber', 0) + 1", line 1506; nothing is
\* reported (0) when the result has no locations.
reported_line(lineNumber) == IF lineNumber = NoLine THEN 0 ELSE lineNumber + 1

\* The states debugger_set_pause_on_exceptions accepts.
PauseStates == {"none", "uncaught", "all"}

\* The argument a caller passes: the call_frame_id of
\* debugger_evaluate_on_call_frame, the location of debugger_set_breakpoint,
\* the breakpoint_id of debugger_remove_breakpoint, the state of
\* debugger_set_pause_on_exceptions.
Args(tool) ==
    CASE tool = "debugger_evaluate_on_call_frame" -> {"frame0", "frame9"}
      [] tool = "debugger_set_breakpoint" -> {Location(n) : n \in Lines}
      [] tool = "debugger_remove_breakpoint" -> {Location(1), "app.js:9"}
      [] tool = "debugger_set_pause_on_exceptions" -> {"all", "sometimes"}
      [] OTHER -> {""}

\* result.get("breakpointId") of the answer to Debugger.setBreakpointByUrl:
\* Chrome derives the id of a breakpoint from its location.
breakpointId(task) == task.arg

\* A client that keeps a breakpoint that was removed.
breakpoints_after_sticky(breakpoints, task) ==
    IF task.tool = "debugger_set_breakpoint"
    THEN breakpoints \cup {breakpointId(task)} ELSE breakpoints

\* The breakpoints of the client when the command of `task` has succeeded:
\* lines 1492 to 1497 of debugger_set_breakpoint, lines 1831 and 1832 of
\* debugger_remove_breakpoint.
breakpoints_after(breakpoints, task) ==
    CASE task.tool = "debugger_set_breakpoint" -> breakpoints \cup {breakpointId(task)}
      [] task.tool = "debugger_remove_breakpoint" -> breakpoints \ {task.arg}
      [] OTHER -> breakpoints

\* "if not cdp.paused_data" of the tools that need a paused debugger.
not_paused(client) == ~Truthy(client.paused_data)

NoConnection == "Error: No Chrome connection found"

NotPaused == "Not paused"

NotConnected == "Error: Not connected to Chrome CDP"

SendFailed == "Error: connection closed"

CdpError == "Error: CDP error"

CdpTimeout == "Error: CDP command timeout"

Ok == "ok"

BadState == "Error: state must be 'none', 'uncaught', or 'all'"

NoCallStack == "Execution is paused but no call stack available."

CallStack == "Execution paused"

\* The tool returns its answer.
Reply(task, text) ==
    [task EXCEPT !.pc = "replied", !.reply = text, !.it = IdleTask.it,
                 !.stored = IdleTask.stored]

\* A tool is called: from its first line to its first await that suspends
\* (ws.send in send_command), or to its return when it sends nothing.
Call(t, tool, connection_id, arg) ==
    /\ tasks[t].pc = "idle"
    /\ LET c == get_connection(connection_id)
           task == [IdleTask EXCEPT !.tool = tool, !.connection_id = connection_id,
                                    !.cdp = c, !.arg = arg]
       IN  IF c = NoClient
           THEN /\ tasks' = [tasks EXCEPT ![t] = Reply(task, NoConnection)]
                /\ UNCHANGED cdp
           ELSE IF tool = "debugger_set_pause_on_exceptions" /\ arg \notin PauseStates
           THEN /\ tasks' = [tasks EXCEPT ![t] = Reply(task, BadState)]
                /\ UNCHANGED cdp
           ELSE IF tool \in PausedTools \cup {"debugger_get_call_stack"}
                   /\ not_paused(cdp[c])
           THEN /\ tasks' = [tasks EXCEPT ![t] = Reply(task, NotPaused)]
                /\ UNCHANGED cdp
           ELSE IF tool = "debugger_get_call_stack"
           THEN /\ tasks' = [tasks EXCEPT ![t] =
                      Reply(task, IF cdp[c].paused_data.value.callFrames = <<>>
                                  THEN NoCallStack ELSE CallStack)]
                /\ UNCHANGED cdp
           ELSE IF cdp[c].ws = "None"
           THEN /\ tasks' = [tasks EXCEPT ![t] = Reply(task, NotConnected)]
                /\ UNCHANGED cdp
           ELSE /\ cdp[c].msg_id < MaxMsgId
                /\ cdp' = [cdp EXCEPT ![c] = register(cdp[c])]
                /\ tasks' = [tasks EXCEPT ![t] =
                                [task EXCEPT !.pc = "send", !.msg_id = register(cdp[c]).msg_id,
                                             !.method = Method(tool),
                                             !.lineNumber =
                                                 IF tool = "debugger_set_breakpoint"
                                                 THEN wire_line(line_number(arg))
                                                 ELSE NoLine]]
    /\ UNCHANGED <<registry, chrome_client>>

\* The custom handler the loop awaits calls send_command on its own client,
\* one command at a time: lines 199 to 213, up to the write of the frame.
HandlerSend(t, c) ==
    /\ cdp[c].receive_task = "in_handler"
    /\ ~HandlerAwaits(c)
    /\ tasks[t].pc = "idle"
    /\ cdp[c].msg_id < MaxMsgId
    /\ cdp' = [cdp EXCEPT ![c] = register(cdp[c])]
    /\ tasks' = [tasks EXCEPT ![t] =
                    [IdleTask EXCEPT !.tool = "handler", !.pc = "send", !.cdp = c,
                                     !.msg_id = register(cdp[c]).msg_id,
                                     !.method = "Runtime.evaluate"]]
    /\ UNCHANGED <<registry, chrome_client>>

\* "await self.ws.send(...)": the frame is written, or the connection is
\* closed and send raises; the exception leaves send_command with the
\* request still registered, and the tool's "except Exception" answers.
Send(t) ==
    /\ tasks[t].pc = "send"
    /\ tasks' = [tasks EXCEPT ![t] =
                    IF cdp[tasks[t].cdp].ws = "open"
                    THEN [tasks[t] EXCEPT !.pc = "wait"]
                    ELSE Reply(tasks[t], SendFailed)]
    /\ UNCHANGED <<cdp, registry, chrome_client>>

\* The 10 seconds of wait_for pass before the future is resolved.
Timeout(t) ==
    /\ tasks[t].pc = "wait"
    /\ LET c == tasks[t].cdp
       IN  /\ cdp[c].pending_responses[tasks[t].msg_id].state = "pending"
           /\ cdp' = [cdp EXCEPT ![c].pending_responses =
                         cancel(cdp[c].pending_responses, tasks[t].msg_id)]
    /\ UNCHANGED <<registry, chrome_client, tasks>>

\* send_command resumes after wait_for, lines 220 to 230, and the tool
\* answers: with the response, "del" and the result or the remote error;
\* after the timeout, "del" and the timeout error. A breakpoint tool whose
\* command succeeded updates the breakpoints of the client before it answers.
Resume(t) ==
    /\ tasks[t].pc = "wait"
    /\ LET c == tasks[t].cdp
           future == cdp[c].pending_responses[tasks[t].msg_id]
       IN  /\ future.state # "pending"
           /\ cdp' = [cdp EXCEPT
                 ![c].pending_responses =
                     IF future.state = "cancelled"
                     THEN del_on_timeout(cdp[c].pending_responses, tasks[t].msg_id)
                     ELSE del_on_response(cdp[c].pending_responses, tasks[t].msg_id),
                 ![c].breakpoints =
                     IF future.state = "done" /\ ~future.result.error
                     THEN breakpoints_after(cdp[c].breakpoints, tasks[t])
                     ELSE cdp[c].breakpoints]
           /\ tasks' = [tasks EXCEPT ![t] =
                 IF future.state = "cancelled"
                 THEN Reply(tasks[t], CdpTimeout)
                 ELSE Reply([tasks[t] EXCEPT
                                !.response = future.result,
                                !.actual_line =
                                    IF tasks[t].tool = "debugger_set_breakpoint"
                                       /\ ~future.result.error
                                    THEN reported_line(future.result.line) ELSE 0],
                            IF future.result.error THEN CdpError ELSE Ok)]
    /\ UNCHANGED <<registry, chrome_client>>

\* The tool's answer is delivered to its caller.
Return(t) ==
    /\ tasks[t].pc = "replied"
    /\ tasks' = [tasks EXCEPT ![t] = IdleTask]
    /\ UNCHANGED <<cdp, registry, chrome_client>>

(* ----------------------- registry operations -------------------------- *)

AlreadyExists == "Error: Connection already exists"

NotFound == "Error: Connection not found"

ConnectFailed == "Error connecting to Chrome"

KeyError == "Error disconnecting: KeyError"

IterationError == "RuntimeError: dictionary changed size during iteration"

\* CDPClient.connect succeeds, lines 114 to 121: the websocket and the loop.
connect(client) == [client EXCEPT !.ws = "open", !.receive_task = "running"]

\* "self.connections[connection_id] = cdp", line 263.
connect_store(d, connection_id, c) == Put(d, connection_id, c)

\* A connect that stores its client whether or not the client connected.
stored_after_connect_always(d, connection_id, c, ok) ==
    connect_store(d, connection_id, c)

\* The dict when "await cdp.connect(...)" has ended, lines 260 to 277: the
\* store of line 263 is skipped when connect raised.
stored_after_connect(d, connection_id, c, ok) ==
    IF ok THEN connect_store(d, connection_id, c) ELSE d

\* A connect that leaves the choice of the active connection to the caller.
connect_active_unset(active, connection_id) == active

\* A connect that makes every new connection the active one.
connect_active_latest(active, connection_id) == connection_id

\* "if self.active_connection_id is None: ...", lines 267 and 268.
connect_active(active, connection_id) ==
    IF active = None THEN connection_id ELSE active

\* A disconnect that keeps the active id it had.
disconnect_active_stale(active, connection_id, d) == active

\* A disconnect that leaves no connection active.
disconnect_active_none(active, connection_id, d) ==
    IF active = connection_id THEN None ELSE active

\* "if self.active_connection_id == connection_id: ...", lines 289 and 290,
\* with d the dict after the "del".
disconnect_active(active, connection_id, d) ==
    IF active = connection_id THEN FirstKey(d) ELSE active

\* chrome_connect, to the await of CDPClient.connect: the check of line 254
\* and the new client of line 259.
Connect(t, connection_id) ==
    /\ tasks[t].pc = "idle"
    /\ LET task == [IdleTask EXCEPT !.tool = "chrome_connect",
                                    !.connection_id = connection_id]
       IN  IF connection_id \in Keys(connections)
           THEN /\ tasks' = [tasks EXCEPT ![t] = Reply(task, AlreadyExists)]
                /\ UNCHANGED cdp
           ELSE /\ Len(cdp) < MaxClients
                /\ cdp' = Append(cdp, NewClient)
                /\ tasks' = [tasks EXCEPT ![t] =
                                [task EXCEPT !.pc = "connecting", !.cdp = Len(cdp) + 1]]
    /\ UNCHANGED <<registry, chrome_client>>

\* CDPClient.connect ends. It succeeds: lines 263 to 273 store the client and
\* make it active when no connection is. It fails (no Chrome, no page target,
\* no websocket): connect raises and chrome_connect answers with the error.
ConnectEnds(t, ok) ==
    /\ tasks[t].pc = "connecting"
    /\ LET c == tasks[t].cdp
           id == tasks[t].connection_id
       IN  /\ cdp' = IF ok THEN [cdp EXCEPT ![c] = connect(cdp[c])] ELSE cdp
           /\ connections' = stored_after_connect(connections, id, c, ok)
           /\ active_connection_id' =
                 IF ok THEN connect_active(active_connection_id, id)
                 ELSE active_connection_id
           /\ tasks' = [tasks EXCEPT ![t] =
                 Reply(tasks[t], IF ok THEN Ok ELSE ConnectFailed)]
    /\ UNCHANGED chrome_client

\* CDPClient.disconnect, from its first line to its first await that
\* suspends. A loop that still runs is cancelled and awaited (line 137); when
\* the loop has ended the await returns at once and ws.close() is called
\* (line 142), which suspends the caller while the connection closes.
begin_disconnect(client) ==
    IF client.receive_task \in {"running", "in_handler", "cancelling"}
    THEN [client EXCEPT !.receive_task = "cancelling"]
    ELSE [client EXCEPT !.ws = "closed"]

awaits(client) ==
    IF client.receive_task \in {"running", "in_handler", "cancelling"}
    THEN "await_task" ELSE "await_close"

\* The cancelled receive loop takes the CancelledError and ends.
LoopCancelled(c) ==
    /\ cdp[c].receive_task = "cancelling"
    /\ cdp' = [cdp EXCEPT ![c].receive_task = "done"]
    /\ UNCHANGED <<registry, chrome_client, tasks>>

\* "await self.receive_task" returns: CDPClient.disconnect goes on to
\* "await self.ws.close()".
AwaitTask(t) ==
    /\ tasks[t].pc = "await_task"
    /\ cdp[tasks[t].cdp].receive_task = "done"
    /\ cdp' = [cdp EXCEPT ![tasks[t].cdp].ws = "closed"]
    /\ tasks' = [tasks EXCEPT ![t].pc = "await_close"]
    /\ UNCHANGED <<registry, chrome_client>>

\* chrome_disconnect, to the first await of CDPClient.disconnect.
Disconnect(t, connection_id) ==
    /\ tasks[t].pc = "idle"
    /\ LET task == [IdleTask EXCEPT !.tool = "chrome_disconnect",
                                    !.connection_id = connection_id]
           c == Get(connections, connection_id)
       IN  IF connection_id \notin Keys(connections)
           THEN /\ tasks' = [tasks EXCEPT ![t] = Reply(task, NotFound)]
                /\ UNCHANGED cdp
           ELSE /\ cdp' = [cdp EXCEPT ![c] = begin_disconnect(cdp[c])]
                /\ tasks' = [tasks EXCEPT ![t] =
                                [task EXCEPT !.pc = awaits(cdp[c]), !.cdp = c]]
    /\ UNCHANGED <<registry, chrome_client>>

\* One turn of "for cdp in self.connections.values(): await cdp.disconnect()"
\* and what follows the loop, lines 296 to 299, for the task record `task`.
DisconnectAllTurn(t, task) ==
    LET kind == NextKind(connections, task.it)
        j == NextIndex(connections, task.it)
        c == connections[j].cdp
    IN  CASE kind = "item" ->
                /\ cdp' = [cdp EXCEPT ![c] = begin_disconnect(cdp[c])]
                /\ tasks' = [tasks EXCEPT ![t] =
                      [task EXCEPT !.pc = awaits(cdp[c]), !.cdp = c,
                                   !.it = [i |-> j, left |-> task.it.left - 1,
                                           used |-> task.it.used]]]
                /\ UNCHANGED <<registry, chrome_client>>
          [] kind = "stop" ->
                /\ connections' = <<>>
                /\ active_connection_id' = None
                /\ tasks' = [tasks EXCEPT ![t] = Reply(task, Ok)]
                /\ UNCHANGED <<cdp, chrome_client>>
          [] kind = "error" ->
                /\ tasks' = [tasks EXCEPT ![t] = Reply(task, IterationError)]
                /\ UNCHANGED <<cdp, registry, chrome_client>>

\* The clients that are stored in the dict.
Values(d) == {d[i].cdp : i \in Live(d)}

\* CDPConnectionManager.disconnect_all is called. The task remembers the
\* clients that are stored at that moment (the code keeps no such record).
DisconnectAll(t) ==
    /\ tasks[t].pc = "idle"
    /\ DisconnectAllTurn(t, [IdleTask EXCEPT !.tool = "disconnect_all",
                                             !.it = Iter(connections),
                                             !.stored = Values(connections)])

\* "await self.ws.close()" returns, and with it CDPClient.disconnect.
\* disconnect goes on with lines 286 to 292 ("del" raises KeyError when the
\* id is not stored any more); disconnect_all takes the next client.
AwaitClose(t) ==
    /\ tasks[t].pc = "await_close"
    /\ LET id == tasks[t].connection_id
       IN  IF tasks[t].tool = "disconnect_all"
           THEN DisconnectAllTurn(t, tasks[t])
           ELSE IF id \in Keys(connections)
           THEN /\ connections' = Del(connections, id)
                /\ active_connection_id' =
                      disconnect_active(active_connection_id, id, Del(connections, id))
                /\ tasks' = [tasks EXCEPT ![t] = Reply(tasks[t], Ok)]
                /\ UNCHANGED <<cdp, chrome_client>>
           ELSE /\ tasks' = [tasks EXCEPT ![t] = Reply(tasks[t], KeyError)]
                /\ UNCHANGED <<cdp, registry, chrome_client>>

\* A switch that does not look the id up.
switch_active_unchecked(active, connection_id) == connection_id

\* switch_active, lines 313 to 317: the active id after the call.
switch_active(active, connection_id) ==
    IF connection_id \notin Keys(connections) THEN active ELSE connection_id

\* chrome_switch_connection
SwitchActive(t, connection_id) ==
    /\ tasks[t].pc = "idle"
    /\ active_connection_id' = switch_active(active_connection_id, connection_id)
    /\ tasks' = [tasks EXCEPT ![t] =
          Reply([IdleTask EXCEPT !.tool = "chrome_switch_connection",
                                 !.connection_id = connection_id],
                IF connection_id \notin Keys(connections) THEN NotFound ELSE Ok)]
    /\ UNCHANGED <<cdp, connections, chrome_client>>

NoConnections == "No active Chrome connections."

Listed == "Chrome Connections:"

\* A list that takes a connection for paused when its paused_data is truthy.
list_connections_truthy ==
    [id \in Keys(connections) |->
        [active |-> id = active_connection_id,
         paused |-> Truthy(cdp[Get(connections, id)].paused_data)]]

\* list_connections, lines 319 to 328 (without the url of each connection).
list_connections ==
    [id \in Keys(connections) |->
        [active |-> id = active_connection_id,
         paused |-> ~cdp[Get(connections, id)].paused_data.is_none]]

\* chrome_list_connections
ListConnections(t) ==
    /\ tasks[t].pc = "idle"
    /\ tasks' = [tasks EXCEPT ![t] =
          Reply([IdleTask EXCEPT !.tool = "chrome_list_connections",
                                 !.listed = list_connections],
                IF Keys(connections) = {} THEN NoConnections ELSE Listed)]
    /\ UNCHANGED <<cdp, registry, chrome_client>>

(* ------------------------ ensure_chrome_client ------------------------ *)

InitFailed == "Error: failed to initialize ChromeDevToolsClient"

NotConnectedToServer == "Error: Not connected to Chrome DevTools server"

HelperError == "Error: the helper failed"

\* Lines 566 to 569: the global after "if chrome_client is None:
\* chrome_client = ChromeDevToolsClient()", before connect is awaited.
ensured(client) == IF client.is_none THEN NewChromeClient ELSE client

\* A tool (get_console_logs) calls ensure_chrome_client, which runs to the
\* first await of ChromeDevToolsClient.connect, the start of the helper
\* process, when the global is None, and returns the global otherwise.
EnsureChromeClient(t) ==
    /\ tasks[t].pc = "idle"
    /\ chrome_client' = ensured(chrome_client)
    /\ tasks' = [tasks EXCEPT ![t] =
                    [IdleTask EXCEPT !.tool = "get_console_logs",
                                     !.pc = IF chrome_client.is_none
                                            THEN "spawning" ELSE "ensured"]]
    /\ UNCHANGED <<cdp, registry>>

\* "await stdio_client(server_params).__aenter__()" ends: the session is
\* created and entered (lines 367 to 372), or the helper did not start and
\* connect, and ensure_chrome_client after it, raise.
ConnectSpawned(t, ok) ==
    /\ tasks[t].pc = "spawning"
    /\ chrome_client' = IF ok THEN [chrome_client EXCEPT !.session = "entered"]
                               ELSE chrome_client
    /\ tasks' = [tasks EXCEPT ![t] =
                    IF ok THEN [tasks[t] EXCEPT !.pc = "initializing"]
                    ELSE Reply(tasks[t], InitFailed)]
    /\ UNCHANGED <<cdp, registry>>

\* "await self.session.initialize()" ends: connect returns and
\* ensure_chrome_client returns the global, or both raise.
ConnectInitialized(t, ok) ==
    /\ tasks[t].pc = "initializing"
    /\ chrome_client' = IF ok THEN [chrome_client EXCEPT !.session = "initialized"]
                               ELSE chrome_client
    /\ tasks' = [tasks EXCEPT ![t] =
                    IF ok THEN [tasks[t] EXCEPT !.pc = "ensured"]
                    ELSE Reply(tasks[t], InitFailed)]
    /\ UNCHANGED <<cdp, registry>>

\* The tool goes on with chrome_client.call_tool: "if not self.session:
\* raise", else the call of the helper is awaited.
CallTool(t) ==
    /\ tasks[t].pc = "ensured"
    /\ tasks' = [tasks EXCEPT ![t] =
                    IF chrome_client.session = "None"
                    THEN Reply(tasks[t], NotConnectedToServer)
                    ELSE [tasks[t] EXCEPT !.pc = "call_tool"]]
    /\ UNCHANGED <<cdp, registry, chrome_client>>

\* The helper answers the call, or the call fails.
ToolAnswered(t, ok) ==
    /\ tasks[t].pc = "call_tool"
    /\ tasks' = [tasks EXCEPT ![t] = Reply(tasks[t], IF ok THEN Ok ELSE HelperError)]
    /\ UNCHANGED <<cdp, registry, chrome_client>>

(* ------------------ specification: one connected client --------------- *)

\* The client that chrome_connect(connection_id="a") leaves connected.
Connected == [NewClient EXCEPT !.ws = "open", !.receive_task = "running"]

Init ==
    /\ cdp = <<Connected>>
    /\ connections = <<[id |-> "a", cdp |-> 1, live |-> TRUE]>>
    /\ active_connection_id = "a"
    /\ tasks = [t \in Tasks |-> IdleTask]
    /\ chrome_client = ChromeConnected

Clients == 1..Len(cdp)

\* What the remote and the transport do to a client, and its receive loop.
Remote ==
    \/ \E c \in Clients, message \in Frames : ReceiveFrame(c, message)
    \/ \E c \in Clients : ConnectionLost(c)
    \/ \E c \in Clients : ReceiveClosed(c)

\* The steps of the tool calls in progress.
Progress ==
    \/ \E t \in Tasks : Send(t)
    \/ \E t \in Tasks : Timeout(t)
    \/ \E t \in Tasks : Resume(t)
    \/ \E t \in Tasks : Return(t)

\* Concurrent callers of one tool that needs no pause and one that does, on
\* the active connection or on a connection id that is not stored.
Next ==
    \/ \E t \in Tasks, tool \in {"debugger_pause", "debugger_resume"}, id \in {None, "b"} :
          Call(t, tool, id, "")
    \/ Progress
    \/ Remote

Spec == Init /\ [][Next]_vars

\* The event loop runs every task that is ready: a write to the connection
\* ends, the timer of wait_for fires after its 10 seconds unless the future
\* is resolved before, and a call whose future is resolved or cancelled is
\* resumed.
Scheduling ==
    \A t \in Tasks :
        WF_vars(Send(t)) /\ WF_vars(Timeout(t)) /\ WF_vars(Resume(t))

SpecLive == Init /\ [][Next]_vars /\ Scheduling

(* ------------- specification: every debugger tool, one caller --------- *)

\* One caller at a time calls any tool with any connection id.
DebuggerNext ==
    \/ \E tool \in Tools, id \in {None, "a", "b"} :
          \E arg \in Args(tool) : Call(1, tool, id, arg)
    \/ Progress
    \/ Remote

SpecDebugger == Init /\ [][DebuggerNext]_vars

(* ---------------- specification: the registry of connections ---------- *)

RegistryInit ==
    /\ cdp = <<>>
    /\ connections = <<>>
    /\ active_connection_id = None
    /\ tasks = [t \in Tasks |-> IdleTask]
    /\ chrome_client = ChromeConnected

\* Concurrent callers connect, disconnect and switch connections under the
\* ids of Ids, while connections are lost.
RegistryNext ==
    \/ \E t \in Tasks, id \in Ids : Connect(t, id)
    \/ \E t \in Tasks, ok \in BOOLEAN : ConnectEnds(t, ok)
    \/ \E t \in Tasks, id \in Ids : Disconnect(t, id)
    \/ \E t \in Tasks : DisconnectAll(t)
    \/ \E t \in Tasks : AwaitTask(t)
    \/ \E t \in Tasks : AwaitClose(t)
    \/ \E t \in Tasks, id \in Ids : SwitchActive(t, id)
    \/ \E t \in Tasks : Return(t)
    \/ \E c \in Clients : LoopCancelled(c)
    \/ \E c \in Clients : ConnectionLost(c)
    \/ \E c \in Clients : ReceiveClosed(c)

SpecRegistry == RegistryInit /\ [][RegistryNext]_vars

(* -------- specification: one client, its handlers and its close ------- *)

\* Concurrent callers send commands on the connected client and disconnect
\* it, while the client has a handler registered for Debugger.paused.
SessionNext ==
    \/ \E t \in Tasks : Call(t, "debugger_pause", None, "")
    \/ Progress
    \/ Remote
    \/ \E c \in Clients : On(c, "Debugger.paused")
    \/ \E c \in Clients, raises \in BOOLEAN : HandlerEnds(c, raises)
    \/ \E t \in Tasks : Disconnect(t, "a")
    \/ \E t \in Tasks : DisconnectAll(t)
    \/ \E t \in Tasks : AwaitTask(t)
    \/ \E t \in Tasks : AwaitClose(t)
    \/ \E c \in Clients : LoopCancelled(c)

SpecSession == Init /\ [][SessionNext]_vars

(* --------- specification: a handler that sends a command ------------- *)

\* The handler registered for Debugger.paused sends commands on the client
\* whose loop awaits it, while another caller sends commands of its own.
HandlerNext ==
    \/ \E c \in Clients : On(c, "Debugger.paused")
    \/ \E t \in Tasks, c \in Clients : HandlerSend(t, c)
    \/ \E c \in Clients, raises \in BOOLEAN : HandlerEnds(c, raises)
    \/ \E t \in Tasks : Call(t, "debugger_pause", None, "")
    \/ Progress
    \/ Remote

SpecHandler == Init /\ [][HandlerNext]_vars

(* ------------- specification: the start of the server --------------- *)

\* The server has started: the global chrome_client is None.
EnsureInit ==
    /\ cdp = <<>>
    /\ connections = <<>>
    /\ active_connection_id = None
    /\ tasks = [t \in Tasks |-> IdleTask]
    /\ chrome_client = NoChromeClient

\* Concurrent callers of a tool that uses the helper process.
EnsureNext ==
    \/ \E t \in Tasks : EnsureChromeClient(t)
    \/ \E t \in Tasks, ok \in BOOLEAN : ConnectSpawned(t, ok)
    \/ \E t \in Tasks, ok \in BOOLEAN : ConnectInitialized(t, ok)
    \/ \E t \in Tasks : CallTool(t)
    \/ \E t \in Tasks, ok \in BOOLEAN : ToolAnswered(t, ok)
    \/ \E t \in Tasks : Return(t)

SpecEnsure == EnsureInit /\ [][EnsureNext]_vars

(* ------------ specification: the messages of one connection ---------- *)

\* Messages arrive on the connection of the connected client while its loop
\* reads them and awaits the handler registered for Debugger.paused.
WireNext ==
    \/ \E c \in Clients, message \in WireFrames : Arrive(c, message)
    \/ \E c \in Clients : ReceiveNext(c)
    \/ \E c \in Clients : On(c, "Debugger.paused")
    \/ \E c \in Clients, raises \in BOOLEAN : HandlerEnds(c, raises)

SpecWire == Init /\ [][WireNext]_vars

(* ------------- specification: two connections and their list --------- *)

\* The state that chrome_connect(connection_id="") and then
\* chrome_connect(connection_id="a") leave.
ListInit ==
    /\ cdp = <<Connected, Connected>>
    /\ connections = <<[id |-> "", cdp |-> 1, live |-> TRUE],
                       [id |-> "a", cdp |-> 2, live |-> TRUE]>>
    /\ active_connection_id = ""
    /\ tasks = [t \in Tasks |-> IdleTask]
    /\ chrome_client = ChromeConnected

\* Callers list, switch and disconnect the connections while the debuggers
\* of the two pages pause and resume.
ListNext ==
    \/ \E t \in Tasks : ListConnections(t)
    \/ \E t \in Tasks, id \in Ids : SwitchActive(t, id)
    \/ \E t \in Tasks, id \in Ids : Disconnect(t, id)
    \/ \E t \in Tasks : AwaitTask(t)
    \/ \E t \in Tasks : AwaitClose(t)
    \/ \E t \in Tasks : Return(t)
    \/ \E c \in Clients : LoopCancelled(c)
    \/ \E c \in Clients, message \in EventFrames : ReceiveFrame(c, message)

SpecList == ListInit /\ [][ListNext]_vars

(* ------------- specification: the clients of two connections -------- *)

\* One caller sets breakpoints on either connection, while the two remotes
\* answer, send events and close their connections.
ClientsNext ==
    \/ \E id \in Ids : Call(1, "debugger_set_breakpoint", id, Location(1))
    \/ Progress
    \/ Remote

SpecClients == ListInit /\ [][ClientsNext]_vars

(* ---------------- specification: the breakpoints of a client --------- *)

\* One caller sets and removes breakpoints on the connected client; Chrome
\* answers with or without the location it resolved a breakpoint to.
BreakpointNext ==
    \/ \E tool \in {"debugger_set_breakpoint", "debugger_remove_breakpoint"} :
          \E arg \in Args(tool) : Call(1, tool, None, arg)
    \/ Progress
    \/ \E c \in Clients, message \in ResponseFrames \cup BreakpointFrames :
          ReceiveFrame(c, message)

SpecBreakpoint == Init /\ [][BreakpointNext]_vars

(* ======================= the claims, C1 to C5 ========================= *)

Pending(c) == cdp[c].pending_responses

TimedOut(t) == tasks[t].pc = "replied" /\ tasks[t].reply = CdpTimeout

\* C1: every future that is resolved holds the response with the id it was
\* registered under, and every call that ends with a response ends with the
\* response whose id is the id the call was given: the result when the
\* response carries none, the remote error when it carries one.
C1_ResponseMatchesRequest ==
    /\ \A c \in Clients : \A i \in DOMAIN Pending(c) :
          Pending(c)[i].state = "done" => Pending(c)[i].result.id = i
    /\ \A t \in Tasks :
          tasks[t].pc = "replied" /\ tasks[t].reply \in {Ok, CdpError}
          => /\ tasks[t].response.id = tasks[t].msg_id
             /\ tasks[t].reply = CdpError <=> tasks[t].response.error

\* The request issued later has its answer while the one issued earlier waits.
C1_Witness ==
    \E t, u \in Tasks :
        /\ tasks[t].pc = "replied" /\ tasks[t].reply = Ok
        /\ tasks[u].pc = "wait" /\ tasks[u].msg_id < tasks[t].msg_id
        /\ Pending(tasks[u].cdp)[tasks[u].msg_id].state = "pending"

\* C2: a call that has timed out has no entry in pending any more, and a
\* response whose id has no entry in pending (the late response of a timed
\* out call is one) changes nothing: no future, no client state, no task,
\* and the receive loop keeps running.
C2_LateResponseDiscarded ==
    [][/\ \A t \in Tasks :
              TimedOut(t) => tasks[t].msg_id \notin DOMAIN Pending(tasks[t].cdp)
       /\ \A c \in Clients : \A message \in ResponseFrames :
              message.id \notin DOMAIN Pending(c) /\ ReceiveFrame(c, message)
              => UNCHANGED vars]_vars

\* A call has timed out while the loop still reads and another call waits.
C2_Witness ==
    \E t, u \in Tasks :
        /\ TimedOut(t)
        /\ cdp[tasks[t].cdp].receive_task = "running" /\ cdp[tasks[t].cdp].ws = "open"
        /\ tasks[u].pc = "wait" /\ tasks[u].cdp = tasks[t].cdp

\* What a step of call t leaves alone in client c: every other request's
\* future, the connection, the receive loop, the derived state, the other calls.
OthersKept(t, c) ==
    /\ \A i \in DOMAIN Pending(c) \ {tasks[t].msg_id} :
          i \in DOMAIN cdp'[c].pending_responses
          /\ cdp'[c].pending_responses[i] = Pending(c)[i]
    /\ cdp'[c].ws = cdp[c].ws
    /\ cdp'[c].receive_task = cdp[c].receive_task
    /\ cdp'[c].paused_data = cdp[c].paused_data
    /\ cdp'[c].msg_id = cdp[c].msg_id
    /\ \A u \in Tasks \ {t} : tasks'[u] = tasks[u]

\* C3: the timeout of one call cancels that call's future only, and when the
\* call resumes it removes that call's entry only and fails that call only.
C3_TimeoutIsLocal ==
    [][\A t \in Tasks :
          /\ Timeout(t) => OthersKept(t, tasks[t].cdp) /\ tasks'[t] = tasks[t]
          /\ Resume(t) /\ Pending(tasks[t].cdp)[tasks[t].msg_id].state = "cancelled"
             => /\ OthersKept(t, tasks[t].cdp)
                /\ tasks[t].msg_id \notin DOMAIN cdp'[tasks[t].cdp].pending_responses
                /\ TimedOut(t)']_vars

\* One call has timed out, the other still waits on a running loop.
C3_Witness ==
    \E t, u \in Tasks :
        /\ TimedOut(t)
        /\ tasks[u].pc = "wait" /\ tasks[u].cdp = tasks[t].cdp
        /\ Pending(tasks[u].cdp)[tasks[u].msg_id].state = "pending"
        /\ cdp[tasks[u].cdp].receive_task = "running" /\ cdp[tasks[u].cdp].ws = "open"

\* C4: the loop's turn on a Debugger.paused event leaves paused_data set, its
\* turn on a Debugger.resumed event leaves it None, and no other step (a
\* response, a call, a timeout) changes paused_data.
C4_PauseSnapshotFollowsEvents ==
    [][\A c \in Clients :
          /\ \A message \in EventFrames :
                ReceiveFrame(c, message)
                => /\ message.method = "Debugger.paused" => ~cdp'[c].paused_data.is_none
                   /\ message.method = "Debugger.resumed" => cdp'[c].paused_data.is_none
          /\ cdp'[c].paused_data # cdp[c].paused_data
             => \E message \in EventFrames :
                   /\ message.method \in {"Debugger.paused", "Debugger.resumed"}
                   /\ ReceiveFrame(c, message)]_vars

\* The client is paused while a response to a pending request has arrived.
C4_Witness ==
    \E t \in Tasks :
        /\ tasks[t].pc = "wait"
        /\ Pending(tasks[t].cdp)[tasks[t].msg_id].state = "done"
        /\ ~cdp[tasks[t].cdp].paused_data.is_none

\* C5: a tool that needs a paused debugger, called on a client whose
\* paused_data is None, answers "not paused" and sends nothing; called on a
\* client whose paused_data is set, it sends its command.
C5_PausedToolsSendIffPaused ==
    [][\A tool \in PausedTools, id \in {None, "a", "b"} : \A arg \in Args(tool) :
          Call(1, tool, id, arg) /\ get_connection(id) # NoClient
          => LET c == get_connection(id)
             IN  IF cdp[c].paused_data.is_none
                 THEN tasks'[1].reply = NotPaused /\ cdp' = cdp
                 ELSE /\ tasks'[1].pc = "send"
                      /\ tasks'[1].method = Method(tool)
                      /\ cdp'[c].msg_id = cdp[c].msg_id + 1]_vars

(* ======================= the claims, C6 to C10 ======================== *)

\* C6: in every state of the registry, also while a connect, a disconnect or
\* a disconnect_all is suspended at an await, the active id is None or a key
\* of connections.
C6_ActiveIsStored ==
    active_connection_id = None \/ active_connection_id \in Keys(connections)

\* A disconnect of the active connection is suspended at its await.
C6_Witness ==
    \E t \in Tasks :
        /\ tasks[t].tool = "chrome_disconnect"
        /\ tasks[t].pc \in {"await_task", "await_close"}
        /\ tasks[t].connection_id = active_connection_id
        /\ Size(connections) = 2

\* C7: connect with an id that is stored answers "already exists" and leaves
\* connections and the active id as they are, and no step replaces the client
\* stored under an id.
C7_ConnectNeverReplaces ==
    [][/\ \A t \in Tasks, id \in Ids :
              Connect(t, id) /\ id \in Keys(connections)
              => tasks'[t].reply = AlreadyExists /\ UNCHANGED registry
       /\ \A id \in Keys(connections) :
              id \in Keys(connections') => Get(connections', id) = Get(connections, id)]_vars

\* C8: when a disconnect removes the active connection and one other
\* connection is stored, that one is active afterwards; when it removes the
\* last connection, no connection is active and get_connection(None) is None.
C8_DisconnectReassignsActive ==
    [][\A t \in Tasks :
          /\ AwaitClose(t)
          /\ tasks[t].tool = "chrome_disconnect"
          /\ tasks[t].connection_id \in Keys(connections)
          /\ tasks[t].connection_id = active_connection_id
          => /\ tasks[t].connection_id \notin Keys(connections')
             /\ Size(connections) = 2 => Keys(connections') = {active_connection_id'}
             /\ Size(connections) = 1 => /\ active_connection_id' = None
                                         /\ get_connection(None)' = NoClient]_vars

\* The connection stored first is removed and the one stored second is active.
C8_Witness ==
    /\ Len(connections) = 2
    /\ ~connections[1].live /\ connections[2].live
    /\ active_connection_id = connections[2].id
    /\ \E t \in Tasks : /\ tasks[t].tool = "chrome_disconnect"
                        /\ tasks[t].pc = "replied" /\ tasks[t].reply = Ok
                        /\ tasks[t].connection_id = connections[1].id

\* C9: switch_active with an id that is not stored answers "not found" and
\* changes nothing; with an id that is stored it makes that id the active one
\* and changes neither connections nor any client.
C9_SwitchActive ==
    [][\A t \in Tasks, id \in Ids :
          SwitchActive(t, id)
          => /\ connections' = connections /\ cdp' = cdp
             /\ \A u \in Tasks \ {t} : tasks'[u] = tasks[u]
             /\ IF id \in Keys(connections)
                THEN active_connection_id' = id /\ tasks'[t].reply = Ok
                ELSE /\ active_connection_id' = active_connection_id
                     /\ tasks'[t].reply = NotFound]_vars

\* A switch has made the connection stored second the active one.
C9_Witness ==
    /\ Size(connections) = 2
    /\ active_connection_id # FirstKey(connections)
    /\ \E t \in Tasks : /\ tasks[t].tool = "chrome_switch_connection"
                        /\ tasks[t].pc = "replied" /\ tasks[t].reply = Ok
                        /\ tasks[t].connection_id = active_connection_id

\* C10: get_connection(id) is the client stored under id, or None;
\* get_connection(None) is the client stored under the active id whenever an
\* id is active, whatever string it is, and None only when none is.
C10_ResolveReturnsActive ==
    /\ \A id \in Ids : get_connection(id) = Get(connections, id)
    /\ get_connection(None) =
          IF active_connection_id # None
          THEN Get(connections, active_connection_id) ELSE NoClient

(* ======================= the claims, C11 to C20 ======================= *)

\* C11: when disconnect_all returns, connections is empty, no connection is
\* active, and every client that was stored when it was called is closed.
C11_DisconnectAllClosesAll ==
    [][\A t \in Tasks :
          /\ \/ tasks[t].pc = "idle"
             \/ tasks[t].pc = "await_close" /\ tasks[t].tool = "disconnect_all"
          /\ tasks'[t].tool = "disconnect_all"
          /\ tasks'[t].pc = "replied" /\ tasks'[t].reply = Ok
          => /\ Keys(connections') = {}
             /\ active_connection_id' = None
             /\ \A c \in (IF tasks[t].pc = "idle"
                           THEN Values(connections) ELSE tasks[t].stored) :
                   cdp'[c].ws = "closed"]_vars

\* C12: a debugger tool called with a connection id that resolves to no
\* client (an id that is not stored, or no id when no connection is active)
\* answers "no connection" and registers and sends no command on any client.
C12_NoConnectionIsReported ==
    [][\A tool \in Tools, id \in {None, "a", "b"} : \A arg \in Args(tool) :
          /\ Call(1, tool, id, arg)
          /\ (IF id = None THEN get_active ELSE get(id)) = NoClient
          => /\ tasks'[1].pc = "replied" /\ tasks'[1].reply = NoConnection
             /\ cdp' = cdp]_vars

\* A tool has answered "no connection" for an id that is not stored, while a
\* client is connected and has been sent commands.
C12_Witness ==
    /\ tasks[1].pc = "replied" /\ tasks[1].reply = NoConnection
    /\ tasks[1].tool = "debugger_set_pause_on_exceptions"
    /\ tasks[1].connection_id = "b"
    /\ cdp[1].ws = "open" /\ cdp[1].msg_id > 0

\* C13: when CDPClient.disconnect has closed a client (from disconnect or
\* from disconnect_all), none of the client's requests is still pending:
\* each has been failed.
C13_ClosePendingFailed ==
    [][\A t \in Tasks :
          AwaitClose(t)
          => \A i \in DOMAIN cdp'[tasks[t].cdp].pending_responses :
                cdp'[tasks[t].cdp].pending_responses[i].state # "pending"]_vars

\* C14: when the receive loop ends on a read error of the transport, none of
\* the client's requests is still pending: each has been failed.
C14_LossPendingFailed ==
    [][\A c \in Clients :
          ReceiveClosed(c)
          => \A i \in DOMAIN cdp'[c].pending_responses :
                cdp'[c].pending_responses[i].state # "pending"]_vars

\* C15: the receive loop still runs after it has read a message that is no
\* JSON, so that it reads the messages that follow.
C15_MalformedFrameSkipped ==
    [][\A c \in Clients : \A message \in OtherFrames :
          ~message.json /\ ReceiveFrame(c, message)
          => cdp'[c].receive_task = "running"]_vars

\* C16: the receive loop still runs after a registered handler has raised.
C16_HandlerFailureIsolated ==
    [][\A c \in Clients :
          HandlerEnds(c, TRUE) /\ cdp[c].receive_task = "in_handler"
          => cdp'[c].receive_task = "running"]_vars

\* CDPClient.disconnect of client c is in progress.
CloseBegun(c) ==
    \E u \in Tasks : tasks[u].cdp = c /\ tasks[u].pc \in {"await_task", "await_close"}

\* C17: while CDPClient.disconnect of a client is in progress, no request is
\* added to the client's pending_responses.
C17_NoRegistrationAfterClose ==
    [][\A c \in Clients :
          CloseBegun(c)
          => DOMAIN cdp'[c].pending_responses \subseteq DOMAIN cdp[c].pending_responses]_vars

\* C18: the loop's turn on an error response to a pending request resolves
\* that request's future with the response and changes nothing else; when the
\* call resumes it fails with the remote error of that response, removes its
\* entry from pending_responses and leaves every other request, the
\* connection, the loop and the other calls as they are.
C18_RemoteErrorFailsItsCall ==
    [][/\ \A c \in Clients : \A message \in ResponseFrames :
              /\ message.error
              /\ message.id \in DOMAIN Pending(c)
              /\ Pending(c)[message.id].state = "pending"
              /\ ReceiveFrame(c, message)
              => /\ cdp'[c] = [cdp[c] EXCEPT !.pending_responses[message.id] =
                                   [state |-> "done", result |-> message]]
                 /\ cdp'[c].receive_task = "running"
                 /\ tasks' = tasks
       /\ \A t \in Tasks :
              /\ Resume(t)
              /\ Pending(tasks[t].cdp)[tasks[t].msg_id].state = "done"
              /\ Pending(tasks[t].cdp)[tasks[t].msg_id].result.error
              => /\ OthersKept(t, tasks[t].cdp)
                 /\ tasks[t].msg_id \notin DOMAIN cdp'[tasks[t].cdp].pending_responses
                 /\ tasks'[t].pc = "replied" /\ tasks'[t].reply = CdpError
                 /\ tasks'[t].response = Pending(tasks[t].cdp)[tasks[t].msg_id].result
                 /\ cdp'[tasks[t].cdp].breakpoints = cdp[tasks[t].cdp].breakpoints]_vars

\* One call has failed with the remote's error while another still waits on
\* a running loop.
C18_Witness ==
    \E t, u \in Tasks :
        /\ tasks[t].pc = "replied" /\ tasks[t].reply = CdpError
        /\ tasks[t].response.error /\ tasks[t].response.id = tasks[t].msg_id
        /\ tasks[u].pc = "wait" /\ tasks[u].cdp = tasks[t].cdp
        /\ Pending(tasks[u].cdp)[tasks[u].msg_id].state = "pending"
        /\ cdp[tasks[u].cdp].receive_task = "running"

\* C19: the request id counter of a client never decreases, every id in use
\* (in pending_responses or held by a call) is at most the counter, and a
\* call that registers a request takes the counter plus one, which is
\* therefore larger than every id issued before and was never issued.
C19_RequestIdsIncrease ==
    [][\A c \in Clients :
          /\ cdp'[c].msg_id >= cdp[c].msg_id
          /\ \A i \in DOMAIN Pending(c) : i <= cdp[c].msg_id
          /\ \A t \in Tasks : tasks[t].cdp = c => tasks[t].msg_id <= cdp[c].msg_id
          /\ \A t \in Tasks :
                tasks[t].pc = "idle" /\ tasks'[t].pc = "send" /\ tasks'[t].cdp = c
                => /\ tasks'[t].msg_id = cdp[c].msg_id + 1
                   /\ cdp'[c].msg_id = tasks'[t].msg_id
                   /\ tasks'[t].msg_id \in DOMAIN cdp'[c].pending_responses
                   /\ tasks'[t].msg_id \notin DOMAIN Pending(c)]_vars

\* A third request is issued after the first has completed and the second
\* has timed out: it has the id 3 and is alone in pending_responses.
C19_Witness ==
    \E t, u \in Tasks :
        /\ TimedOut(t) /\ tasks[t].msg_id = 2
        /\ tasks[u].pc = "wait" /\ tasks[u].msg_id = 3 /\ tasks[u].cdp = tasks[t].cdp
        /\ DOMAIN Pending(tasks[u].cdp) = {3}

\* C20: every id in pending_responses was issued by the client and belongs
\* to a call that has not completed.
C20_PendingAreInFlight ==
    \A c \in Clients : \A i \in DOMAIN Pending(c) :
        /\ i \in 1..cdp[c].msg_id
        /\ \E t \in Tasks : /\ tasks[t].cdp = c /\ tasks[t].msg_id = i
                            /\ tasks[t].pc \in {"send", "wait"}

(* ======================= the claims, C21 to C30 ======================= *)

\* A connect, a disconnect or a disconnect_all of task u is suspended between
\* its first read and its last write of connections and the active id.
InProgress(u) == tasks[u].pc \in {"connecting", "await_task", "await_close"}

\* C21: while a connect, a disconnect or a disconnect_all is in progress, no
\* other caller's registry operation starts: none reads or writes connections
\* or the active id.
C21_RegistryOperationsExclusive ==
    [][\A u \in Tasks : \A t \in Tasks \ {u} :
          InProgress(u) /\ tasks[t].pc = "idle" => tasks'[t].pc = "idle"]_vars

\* C22: a disconnect that finds, when CDPClient.disconnect has returned, that
\* its id is not stored any more (another disconnect or disconnect_all has
\* removed it) answers "not found": it does not raise.
C22_RemovedIdIsNotFound ==
    [][\A t \in Tasks :
          /\ AwaitClose(t)
          /\ tasks[t].tool = "chrome_disconnect"
          /\ tasks[t].connection_id \notin Keys(connections)
          => tasks'[t].reply = NotFound]_vars

\* C23: a connect whose CDPClient.connect fails answers with the failure and
\* changes neither connections nor the active id nor any client, the client
\* it constructed is stored nowhere, and the start of a connect (up to its
\* await) changes neither connections nor the active id.
C23_FailedConnectStoresNothing ==
    [][\A t \in Tasks :
          /\ ConnectEnds(t, FALSE)
             => /\ UNCHANGED registry
                /\ cdp' = cdp
                /\ tasks'[t].pc = "replied" /\ tasks'[t].reply = ConnectFailed
                /\ tasks[t].cdp \notin Values(connections')
          /\ \A id \in Ids : Connect(t, id) => UNCHANGED registry]_vars

\* A connect has failed while another connection is stored and active.
C23_Witness ==
    \E t \in Tasks :
        /\ tasks[t].tool = "chrome_connect"
        /\ tasks[t].pc = "replied" /\ tasks[t].reply = ConnectFailed
        /\ cdp[tasks[t].cdp].ws = "None"
        /\ Size(connections) = 1 /\ active_connection_id \in Keys(connections)
        /\ tasks[t].connection_id \notin Keys(connections)

\* C25: a connect that succeeds stores its client under its id; it makes the
\* id active when no connection is active, as is the case for the first
\* client that ever connects, and leaves the active id alone otherwise.
C25_ConnectSetsActiveWhenNone ==
    [][\A t \in Tasks :
          ConnectEnds(t, TRUE)
          => LET c == tasks[t].cdp
                 id == tasks[t].connection_id
             IN  /\ Get(connections', id) = c
                 /\ cdp'[c].ws = "open"
                 /\ (\A other \in Clients \ {c} : cdp[other].ws = "None")
                    => active_connection_id' = id
                 /\ active_connection_id = None => active_connection_id' = id
                 /\ active_connection_id # None
                    => active_connection_id' = active_connection_id]_vars

\* A second connection is stored and the first is still the active one.
C25_Witness ==
    \E t \in Tasks :
        /\ tasks[t].tool = "chrome_connect"
        /\ tasks[t].pc = "replied" /\ tasks[t].reply = Ok
        /\ Size(connections) = 2
        /\ Get(connections, tasks[t].connection_id) = tasks[t].cdp
        /\ active_connection_id \in Keys(connections)
        /\ active_connection_id # tasks[t].connection_id

\* C24: the list that chrome_list_connections answers with has one record
\* for each stored id and no other; the record of an id is flagged active
\* exactly when the id is the active id, so that at most one record is; and
\* it is flagged paused exactly when the paused_data of the client stored
\* under the id is not None.
C24_ListMatchesRegistry ==
    [][\A t \in Tasks :
          ListConnections(t)
          => LET listed == tasks'[t].listed
             IN  /\ DOMAIN listed = Keys(connections)
                 /\ \A id \in DOMAIN listed :
                       /\ listed[id].active <=> id = active_connection_id
                       /\ listed[id].paused <=>
                             ~cdp[Get(connections, id)].paused_data.is_none
                 /\ Cardinality({id \in DOMAIN listed : listed[id].active}) <= 1]_vars

\* The list of two connections: the second is active, and one of them is
\* paused on an event that had no params.
C24_Witness ==
    \E t \in Tasks :
        /\ tasks[t].tool = "chrome_list_connections" /\ tasks[t].pc = "replied"
        /\ DOMAIN tasks[t].listed = {"", "a"}
        /\ tasks[t].listed["a"].active /\ ~tasks[t].listed[""].active
        /\ tasks[t].listed[""].paused /\ ~tasks[t].listed["a"].paused
        /\ cdp[1].paused_data = Some(EmptyDict)

\* C26: debugger_set_breakpoint called with line N sends line N - 1; the
\* line it reports is the line of the location in the answer plus 1; and
\* when the answer names the line that was sent, it reports N.
C26_BreakpointLineConversion ==
    [][/\ \A arg \in Args("debugger_set_breakpoint") :
              Call(1, "debugger_set_breakpoint", None, arg) /\ tasks'[1].pc = "send"
              => \E n \in Lines : /\ arg = Location(n)
                                   /\ tasks'[1].lineNumber = n - 1
       /\ /\ Resume(1)
          /\ tasks[1].tool = "debugger_set_breakpoint"
          /\ tasks'[1].reply = Ok
          /\ tasks'[1].response.line # NoLine
          => /\ tasks'[1].actual_line = tasks'[1].response.line + 1
             /\ tasks'[1].response.line = tasks[1].lineNumber
                => tasks[1].arg = Location(tasks'[1].actual_line)]_vars

\* A breakpoint set on line 2 is sent as line 1, confirmed there and reported
\* on line 2.
C26_Witness ==
    /\ tasks[1].tool = "debugger_set_breakpoint"
    /\ tasks[1].pc = "replied" /\ tasks[1].reply = Ok
    /\ tasks[1].arg = Location(2) /\ tasks[1].lineNumber = 1
    /\ tasks[1].response.line = 1 /\ tasks[1].actual_line = 2

\* C30: the breakpoints of a client change only when a breakpoint tool's
\* command has succeeded: debugger_set_breakpoint adds the id it was
\* answered, debugger_remove_breakpoint removes the id it was given, and a
\* command that fails or times out, like every other step, leaves them.
C30_BreakpointsFollowSuccess ==
    [][\A c \in Clients :
          LET before == cdp[c].breakpoints
              after == cdp'[c].breakpoints
              mine == tasks[1].cdp = c /\ Resume(1)
          IN  /\ mine /\ tasks'[1].reply = Ok /\ tasks[1].tool = "debugger_set_breakpoint"
                 => after = before \cup {tasks[1].arg}
              /\ mine /\ tasks'[1].reply = Ok /\ tasks[1].tool = "debugger_remove_breakpoint"
                 => after = before \ {tasks[1].arg}
              /\ mine /\ tasks'[1].reply \in {CdpError, CdpTimeout} => after = before
              /\ ~mine => after = before]_vars

\* Two breakpoints were set and the first has been removed.
C30_Witness ==
    /\ tasks[1].tool = "debugger_remove_breakpoint"
    /\ tasks[1].pc = "replied" /\ tasks[1].reply = Ok
    /\ tasks[1].arg = Location(1)
    /\ cdp[1].breakpoints = {Location(2)}
    /\ cdp[1].msg_id = 3

\* C27: neither the answer to a command nor the tool that resumes with it
\* changes paused_data, so a client stays paused after debugger_resume or a
\* step has succeeded; paused_data goes from set to None only in the loop's
\* turn on a Debugger.resumed event.
C27_OnlyResumedEventClears ==
    [][\A c \in Clients :
          /\ Resume(1) /\ tasks[1].cdp = c
             => cdp'[c].paused_data = cdp[c].paused_data
          /\ \A message \in ResponseFrames :
                ReceiveFrame(c, message) => cdp'[c].paused_data = cdp[c].paused_data
          /\ ~cdp[c].paused_data.is_none /\ cdp'[c].paused_data.is_none
             => \E message \in EventFrames :
                   /\ message.method = "Debugger.resumed"
                   /\ ReceiveFrame(c, message)]_vars

\* debugger_resume has succeeded and the client is still paused.
C27_Witness ==
    /\ tasks[1].tool = "debugger_resume"
    /\ tasks[1].pc = "replied" /\ tasks[1].reply = Ok
    /\ cdp[tasks[1].cdp].paused_data = Some(PausedParams)

\* C28: debugger_evaluate_on_call_frame sends its command only when the
\* client is paused and the call_frame_id is one of the call frames of
\* paused_data.
C28_EvaluateOnKnownFrame ==
    [][\A id \in {None, "a", "b"} :
          \A arg \in Args("debugger_evaluate_on_call_frame") :
             /\ Call(1, "debugger_evaluate_on_call_frame", id, arg)
             /\ tasks'[1].pc = "send"
             => LET paused_data == cdp[get_connection(id)].paused_data
                IN  /\ ~paused_data.is_none
                    /\ \E i \in DOMAIN paused_data.value.callFrames :
                          paused_data.value.callFrames[i] = arg]_vars

\* C29: every client that a disconnect or a disconnect_all removes from
\* connections has its connection closed.
C29_RemovedClientsAreClosed ==
    [][\A t \in Tasks :
          AwaitClose(t)
          => \A c \in Values(connections) \ Values(connections') :
                cdp'[c].ws = "closed"]_vars

(* ======================= the claims, C31 to C40 ======================= *)

\* send_command of task t is in progress: its request is registered.
Sending(t) == tasks[t].pc \in {"send", "wait"}

\* C31 as it is stated: every send_command in progress ends, and it ends
\* with the result, with the remote error or with the timeout error.
C31_CompletesInThreeWays ==
    \A t \in Tasks :
        Sending(t) ~> /\ tasks[t].pc = "replied"
                      /\ tasks[t].reply \in {Ok, CdpError, CdpTimeout}

\* C31, amended: every send_command in progress ends, whatever the remote
\* sends and whether or not the receive loop runs: with the result, with the
\* remote error, with the timeout error, or with the error of the write to
\* the connection.
C31_EveryCommandCompletes ==
    \A t \in Tasks :
        Sending(t) ~> /\ tasks[t].pc = "replied"
                      /\ tasks[t].reply \in {Ok, CdpError, CdpTimeout, SendFailed}

\* A call has timed out on a client whose receive loop has ended while the
\* connection is open.
C31_Witness ==
    \E t \in Tasks :
        /\ TimedOut(t)
        /\ cdp[tasks[t].cdp].receive_task = "done" /\ cdp[tasks[t].cdp].ws = "open"

\* C32: when the loop's turn on an event awaits a custom handler, paused_data
\* is already what the event makes it (set, for a Debugger.paused event),
\* and the turn awaits a handler exactly when one is registered for the
\* method of the event.
C32_TrackingBeforeHandler ==
    [][\A c \in Clients : \A message \in EventFrames :
          ReceiveFrame(c, message)
          => /\ cdp'[c].receive_task = "in_handler"
                <=> message.method \in cdp[c].event_handlers
             /\ cdp'[c].receive_task = "in_handler"
                => /\ cdp'[c].paused_data =
                         handle_paused_data(cdp[c].paused_data, message)
                   /\ message.method = "Debugger.paused"
                      => ~cdp'[c].paused_data.is_none]_vars

\* The handler of Debugger.paused runs and the client is paused with the
\* call frames of the event.
C32_Witness ==
    \E c \in Clients :
        /\ cdp[c].receive_task = "in_handler"
        /\ "Debugger.paused" \in cdp[c].event_handlers
        /\ cdp[c].paused_data = Some(PausedParams)

\* C33: the messages the loop has processed are, in their order, the first
\* of the messages that arrived; the loop takes one message at a time; and
\* it takes none while it awaits the handler of the message before, when
\* neither paused_data nor a future changes.
C33_WireOrder ==
    [][\A c \in Clients :
          LET arrived == cdp'[c].arrived
              before == cdp[c].processed
              after == cdp'[c].processed
          IN  /\ Len(after) <= Len(arrived)
              /\ after = SubSeq(arrived, 1, Len(after))
              /\ after # before
                 => /\ after = Append(before, arrived[Len(before) + 1])
                    /\ cdp[c].receive_task = "running"
              /\ cdp[c].receive_task = "in_handler"
                 => /\ after = before
                    /\ cdp'[c].paused_data = cdp[c].paused_data
                    /\ cdp'[c].pending_responses = cdp[c].pending_responses]_vars

\* The loop awaits the handler of the first message, a Debugger.paused
\* event, while a Debugger.resumed event and a third message wait.
C33_Witness ==
    \E c \in Clients :
        /\ cdp[c].receive_task = "in_handler"
        /\ Len(cdp[c].arrived) = 3 /\ Len(cdp[c].processed) = 1
        /\ cdp[c].arrived[1].method = "Debugger.paused"
        /\ cdp[c].arrived[2].method = "Debugger.resumed"
        /\ ~cdp[c].paused_data.is_none

\* C34: when a registry operation completes (connect, disconnect,
\* disconnect_all or switch_active, with or without success), the active id
\* is None exactly when connections is empty.
C34_ActiveNoneIffEmpty ==
    [][\A t \in Tasks :
          tasks[t].pc # "replied" /\ tasks'[t].pc = "replied"
          => (active_connection_id' = None <=> Keys(connections') = {})]_vars

\* A disconnect has removed the active connection of two and the other is
\* active, while the other caller's connect has failed.
C34_Witness ==
    \E t, u \in Tasks :
        /\ tasks[t].tool = "chrome_disconnect"
        /\ tasks[t].pc = "replied" /\ tasks[t].reply = Ok
        /\ Size(connections) = 1 /\ active_connection_id = FirstKey(connections)
        /\ ~connections[1].live
        /\ tasks[u].pc = "replied" /\ tasks[u].reply = ConnectFailed

\* C35: a tool that needs a paused debugger, called on a connection that
\* list_connections reports as paused, does not answer "not paused".
C35_ListAgreesWithTools ==
    [][\A tool \in PausedTools \cup {"debugger_get_call_stack"} :
          \A id \in Keys(connections) : \A arg \in Args(tool) :
             Call(1, tool, id, arg) /\ list_connections[id].paused
             => tasks'[1].reply # NotPaused]_vars

\* C36: the receive loop still runs after its turn on a response, also on a
\* response whose id is in pending_responses with a future that is resolved
\* or cancelled already; such a response changes nothing.
C36_ResponseNeverStopsLoop ==
    [][\A c \in Clients : \A message \in ResponseFrames :
          ReceiveFrame(c, message)
          => /\ cdp'[c].receive_task = "running"
             /\ message.id \in DOMAIN Pending(c)
                /\ Pending(c)[message.id].state # "pending"
                => UNCHANGED vars]_vars

\* C37: when the write of the command to the connection fails, the call
\* fails and its request id is not in pending_responses afterwards.
C37_SendFailureUnregisters ==
    [][\A t \in Tasks :
          Send(t) /\ cdp[tasks[t].cdp].ws # "open"
          => /\ tasks'[t].pc = "replied" /\ tasks'[t].reply = SendFailed
             /\ tasks[t].msg_id \notin DOMAIN cdp'[tasks[t].cdp].pending_responses]_vars

\* The send_command of task t was called by the custom handler of client c
\* and has not ended.
FromHandler(t, c) ==
    tasks[t].tool = "handler" /\ tasks[t].cdp = c /\ Sending(t)

StepOf(c) ==
    \/ \E message \in Frames : ReceiveFrame(c, message)
    \/ ConnectionLost(c)
    \/ ReceiveClosed(c)
    \/ \E t \in Tasks : tasks[t].cdp = c /\ (Send(t) \/ Timeout(t) \/ Resume(t))

\* C39: a message, a timeout, the end of a command or the loss of the
\* connection of one client changes no other client (its pending_responses,
\* paused_data, breakpoints and msg_id among the rest), nor connections, nor
\* the active id.
C39_ClientsAreIndependent ==
    [][\A c \in Clients :
          StepOf(c)
          => /\ \A other \in Clients \ {c} : cdp'[other] = cdp[other]
             /\ UNCHANGED registry]_vars

\* One client is paused, has a breakpoint and has lost its connection; the
\* other has nothing of it and a command of its own pending.
C39_Witness ==
    /\ cdp[1].paused_data = Some(PausedParams) /\ cdp[1].breakpoints # {}
    /\ cdp[1].ws = "closed"
    /\ cdp[2].paused_data.is_none /\ cdp[2].breakpoints = {} /\ cdp[2].ws = "open"
    /\ tasks[1].cdp = 2 /\ tasks[1].pc = "wait" /\ cdp[2].msg_id = 1
    /\ Pending(2)[1].state = "pending"

\* C40: ensure_chrome_client returns to its caller only when connect of the
\* global chrome_client has returned, also after an initialisation that
\* failed and while another caller's initialisation is in progress.
C40_EnsureReturnsConnected ==
    [][\A t \in Tasks :
          tasks[t].pc # "ensured" /\ tasks'[t].pc = "ensured"
          => ~chrome_client'.is_none /\ chrome_client'.session = "initialized"]_vars

====
